---- MODULE Spec2Model ----
(***************************************************************************)
(* Model of scripts/loggen-json.py: the synthetic JSON log generator.      *)
(*                                                                         *)
(* Time is kept in fixed point: the wall clock and every float the script  *)
(* draws (response times, sleep lengths) are counted in units of 1/Den ms, *)
(* so that int(...) truncation is a real operation of the model.           *)
(***************************************************************************)
EXTENDS Integers, Sequences, FiniteSets, TLC

VARIABLES
    pc,           \* position of the process inside main()
    clock,        \* wall clock, in 1/Den ms
    reqid_iter,   \* number of identifiers req_id_gen has yielded so far
    login_status, \* status of /api/auth/login, drawn when AUTH_ROUTES is built
    fh,           \* the open output file: [buf: pending text, file: persisted lines]
    banner_i,     \* banner records yielded by mk_server_listening_entries
    banner_t,     \* the t captured by mk_server_listening_entries
    frame,        \* locals of main: [inc, rid, t0, status, done]
    synth,        \* history: every record synthesized so far, in order
    exit_code,    \* process exit status, -1 while running
    dpc,          \* position inside detect_log_file
    env,          \* value of the LOG_FILE environment variable
    dir,          \* content of /logs: name -> [is_file, mtime]
    stat_fails,   \* whether a filesystem call inside the try block raises
    LOG_FILE      \* result of detect_log_file

mainvars == <<pc, clock, reqid_iter, login_status, fh, banner_i, banner_t,
              frame, synth, exit_code>>
detectvars == <<dpc, env, dir, stat_fails, LOG_FILE>>
vars == <<mainvars, detectvars>>

---------------------------------------------------------------------------
(* Bounds of the model *)

\* iterations of the steady-state loop explored with every draw enumerated
MaxIter == 2
\* iterations explored along the single-draw run that crosses the alphabet
MaxIds == 38
\* wall-clock time one log_json call takes, in 1/Den ms
WriteCost == 4

---------------------------------------------------------------------------
(* Program constants *)

\* resolution of the fixed-point encoding of the script's floats
Den == 10
RtMin == 8
RtMaxOk == 400
RtMaxErr == 3000
PortMin == 53000
PortMax == 53350
Sleep1Min == 100
Sleep1Max == 500
Sleep2Min == 200
Sleep2Max == 1500
pid == 1
hostname == "loggen"

ROUTES ==
    << <<"/", 200>>,
       <<"/css/output.css", 200>>,
       <<"/ts/app.js", 200>>,
       <<"/ts/gameModesRouter.js", 404>>,
       <<"/ts/localGame.js", 200>>,
       <<"/ts/login-register-form.js", 200>>,
       <<"/ts/authenticate.js", 200>>,
       <<"/ts/userProfile.js", 200>>,
       <<"/ts/gameUtils/drawBoard.js", 200>>,
       <<"/ts/gameUtils/websocketManager.js", 200>>,
       <<"/ts/gameUtils/inputHandler.js", 200>>,
       <<"/ts/gameUtils/gameRenderer.js", 200>>,
       <<"/ts/validateInput.js", 200>>,
       <<"/game/multiplayer", 200>>,
       <<"/game/online", 200>>,
       <<"/game/online-tournament", 200>>,
       <<"/game/local-tournament", 200>>,
       <<"/game/local", 200>>,
       <<"/friends", 404>>,
       <<"/profile", 200>>,
       <<"/login", 200>>,
       <<"/register", 200>>,
       <<"/assets/default-avatar.svg", 200>>,
       <<"/ws/localGame", 200>> >>

\* the catalog as built at import time; the login status is the one drawn then
AUTH_ROUTES ==
    << <<"POST", "/api/auth/refresh", 401>>,
       <<"POST", "/api/auth/login", login_status>>,
       <<"POST", "/api/auth/register", 200>> >>

LoginStatusDraws == {200, 406}

---------------------------------------------------------------------------
(* req_id_gen *)

HexDigits == <<"0","1","2","3","4","5","6","7","8","9","a","b","c","d","e","f">>
DecDigits == <<"0","1","2","3","4","5","6","7","8","9">>

RECURSIVE Hex(_)
\* format(k, "x")
Hex(k) == IF k < 16 THEN HexDigits[k + 1]
          ELSE Hex(k \div 16) \o HexDigits[(k % 16) + 1]

RECURSIVE Dec(_)
\* str(k) for k >= 0
Dec(k) == IF k < 10 THEN DecDigits[k + 1]
          ELSE Dec(k \div 10) \o DecDigits[(k % 10) + 1]

alphabet ==
    <<"0","1","2","3","4","5","6","7","8","9",
      "a","b","c","d","e","f","g","h","i","j","k","l","m",
      "n","o","p","q","r","s","t","u","v","w","x","y","z">>

\* mutant: the identifier wraps around the alphabet instead of leaving it
req_id_wrap(i) ==
    IF i <= 10 THEN "req-" \o Hex(i - 1)
    ELSE "req-" \o alphabet[((i - 1) % Len(alphabet)) + 1]

\* mutant: past the alphabet the zero-based index is printed, not i
req_id_offby1(i) ==
    IF i <= 10 THEN "req-" \o Hex(i - 1)
    ELSE IF (i - 1) < Len(alphabet) THEN "req-" \o alphabet[(i - 1) + 1]
         ELSE "req-" \o Dec(i - 1)

\* the value yielded for counter value i of itertools.count(1)
req_id(i) ==
    IF i <= 10 THEN "req-" \o Hex(i - 1)
    ELSE IF (i - 1) < Len(alphabet) THEN "req-" \o alphabet[(i - 1) + 1]
         ELSE "req-" \o Dec(i)

---------------------------------------------------------------------------
(* clock and file *)

\* int(time.time() * 1000)
now_ms == clock \div Den

\* fh.flush(): pending text reaches the file
fh_flush(f) == [buf |-> <<>>, file |-> f.file \o f.buf]

\* fh.write(text) on a file opened with buffering=1: the text layer flushes
\* by itself whenever the written text contains a newline, as every line does
fh_write(f, line) == fh_flush([f EXCEPT !.buf = Append(@, line)])

\* mutant: the line stays in the buffer, nothing pushes it out
log_json_noflush(line, f) == [f EXCEPT !.buf = Append(@, line)]

\* log_json: one compact line, then flush
log_json(line, f) == fh_flush(fh_write(f, line))

---------------------------------------------------------------------------
(* entry synthesizer *)

host_msgs ==
    <<"Server listening at https://[::1]:3000",
      "Server listening at https://127.0.0.1:3000",
      "ft_transcendence running at https://[::1]:3000">>

\* mutant: every banner reads the clock itself
banner_entry_ownclock(t, m) ==
    [level |-> 30, time |-> now_ms, pid |-> pid, hostname |-> hostname, msg |-> m]

\* one record yielded by mk_server_listening_entries
banner_entry(t, m) ==
    [level |-> 30, time |-> t, pid |-> pid, hostname |-> hostname, msg |-> m]

\* the entry built by mk_incoming_request
incoming_entry(rid, t, method, url, host, remote_port) ==
    [level |-> 30, time |-> t, pid |-> pid, hostname |-> hostname,
     reqId |-> rid,
     req |-> [method |-> method, url |-> url, host |-> host,
              remoteAddress |-> "::1", remotePort |-> remote_port],
     msg |-> "incoming request"]

\* int(rt) for rt >= 0
int_rt(rt) == rt \div Den

\* mutant: the completed record is stamped with the start time alone
mk_request_completed_noadd(rid, status_code, started_ms, rt) ==
    [level |-> 30, time |-> started_ms, pid |-> pid, hostname |-> hostname,
     reqId |-> rid, res |-> [statusCode |-> status_code],
     responseTime |-> rt, msg |-> "request completed"]

\* mutant: the completed record takes a fresh identifier
mk_request_completed_newid(rid, status_code, started_ms, rt) ==
    [level |-> 30, time |-> started_ms + int_rt(rt), pid |-> pid,
     hostname |-> hostname, reqId |-> req_id(reqid_iter + 1),
     res |-> [statusCode |-> status_code],
     responseTime |-> rt, msg |-> "request completed"]

\* mk_request_completed, for the elapsed time rt it drew
mk_request_completed(rid, status_code, started_ms, rt) ==
    [level |-> 30, time |-> started_ms + int_rt(rt), pid |-> pid,
     hostname |-> hostname, reqId |-> rid,
     res |-> [statusCode |-> status_code],
     responseTime |-> rt, msg |-> "request completed"]

\* mutant: the wide range is used for every status
RtRange_wide(status_code) == RtMin .. RtMaxErr

\* the values random.uniform can return in mk_request_completed
RtRange(status_code) ==
    IF status_code = 200 THEN RtMin .. RtMaxOk ELSE RtMin .. RtMaxErr

---------------------------------------------------------------------------
(* random draws *)

Range(f) == {f[k] : k \in DOMAIN f}

\* mutant: the login status is drawn again at every selection
RouteChoices_perdraw ==
    {<<"GET", r[1], r[2]>> : r \in Range(ROUTES)}
        \cup Range(AUTH_ROUTES)
        \cup {<<"POST", "/api/auth/login", s>> : s \in LoginStatusDraws}

\* every (method, url, status) the selection at the top of the loop can give:
\* either branch of random.random() < 0.8, then random.choice of that catalog
RouteChoices ==
    {<<"GET", r[1], r[2]>> : r \in Range(ROUTES)} \cup Range(AUTH_ROUTES)

\* the urls kept when the draws are enumerated: one general route per status
\* code of ROUTES, and the whole auth catalog
UrlSamples == {"/", "/friends", "/api/auth/refresh", "/api/auth/login",
               "/api/auth/register"}

\* the elapsed times kept when the draws are enumerated: the ends of both
\* ranges (the lower end, 0.8, is not a whole number of milliseconds)
RtSamples == {RtMin, RtMaxOk, RtMaxErr}

\* random.randint(53000, 53350); no record field but remotePort depends on it
RemotePorts == PortMin .. PortMax

\* random.uniform(0.01, 0.05) and random.uniform(0.02, 0.15), in 1/Den ms
Sleep1Range == Sleep1Min .. Sleep1Max
Sleep2Range == Sleep2Min .. Sleep2Max

\* draws of a run that enumerates the random choices
Full ==
    [cap    |-> MaxIter,
     routes |-> {r \in RouteChoices : r[2] \in UrlSamples},
     ports  |-> RemotePorts \cap {PortMin},
     rts    |-> RtSamples,
     sleep1 |-> Sleep1Range \cap {Sleep1Min, Sleep1Max},
     sleep2 |-> Sleep2Range \cap {Sleep2Min, Sleep2Max}]

\* draws of a long run: one value per random choice
Single ==
    [cap    |-> MaxIds,
     routes |-> {r \in RouteChoices : r[2] = "/"},
     ports  |-> RemotePorts \cap {PortMin},
     rts    |-> {RtMin},
     sleep1 |-> Sleep1Range \cap {Sleep1Min},
     sleep2 |-> Sleep2Range \cap {Sleep2Min}]

---------------------------------------------------------------------------
(* detect_log_file *)

DefaultLogFile == "/logs/ft_transcendence.jsonl"

UpperCase == <<"A","B","C","D","E","F","G","H","I","J","K","L","M",
               "N","O","P","Q","R","S","T","U","V","W","X","Y","Z">>
LowerCase == <<"a","b","c","d","e","f","g","h","i","j","k","l","m",
               "n","o","p","q","r","s","t","u","v","w","x","y","z">>

\* str.lower() on a name held as a sequence of characters
lower(name) ==
    [k \in DOMAIN name |->
        IF \E u \in DOMAIN UpperCase : UpperCase[u] = name[k]
        THEN LowerCase[CHOOSE u \in DOMAIN UpperCase : UpperCase[u] = name[k]]
        ELSE name[k]]

\* sub in s
Contains(sub, s) ==
    \E k \in 0 .. (Len(s) - Len(sub)) : SubSeq(s, k + 1, k + Len(sub)) = sub

RECURSIVE Join(_)
\* the characters of a name as one string
Join(name) == IF name = <<>> THEN "" ELSE Head(name) \o Join(Tail(name))

\* str(p) for an entry p of /logs
PathStr(name) == "/logs/" \o Join(name)

\* file names the scan directory is populated from
Names ==
    { <<"x", ".", "l", "o", "g">>,
      <<"a", ".", "t", "x", "t">>,
      <<"b", ".", "J", "S", "O", "N">>,
      <<"l", "o", "g", "s">> }

\* modification times the entries are given
MaxMtime == 2

\* what the listing knows of one entry
Meta == [is_file : BOOLEAN, mtime : 1 .. MaxMtime]

\* os.environ.get("LOG_FILE"): <<>> when unset, else the one value
EnvValues == { <<>>, <<"">>, <<"/tmp/out.jsonl">> }

\* "if env:"
EnvSet == env # <<>> /\ env[1] # ""

\* list(pathlib.Path(logs_dir).glob("*"))
paths == DOMAIN dir

\* len(paths) == 1 and paths[0].is_file()
SingleFile == Cardinality(paths) = 1 /\ \A p \in paths : dir[p].is_file

\* the json-ish candidates
jsonish ==
    {p \in paths :
        /\ dir[p].is_file
        /\ \/ Contains(<<"j","s","o","n">>, lower(p))
           \/ Contains(<<"l","o","g">>, lower(p))}

\* jsonish[0] after the sort by st_mtime, newest first; the sort is stable and
\* the listing order is the file system's, so equal times leave the choice open
Newest == {p \in jsonish : \A q \in jsonish : dir[q].mtime <= dir[p].mtime}

\* "if env: return env"
DetectEnv ==
    /\ dpc = "start"
    /\ EnvSet
    /\ LOG_FILE' = env[1]
    /\ dpc' = "done"
    /\ UNCHANGED <<mainvars, env, dir, stat_fails>>

\* the single entry of the directory, when it is a file
DetectSingle ==
    /\ dpc = "start"
    /\ ~EnvSet
    /\ SingleFile
    /\ \E p \in paths : LOG_FILE' = PathStr(p)
    /\ dpc' = "done"
    /\ UNCHANGED <<mainvars, env, dir, stat_fails>>

\* the most recently modified json-ish file
DetectJsonish ==
    /\ dpc = "start"
    /\ ~EnvSet
    /\ ~SingleFile
    /\ jsonish # {}
    /\ ~stat_fails
    /\ \E p \in Newest : LOG_FILE' = PathStr(p)
    /\ dpc' = "done"
    /\ UNCHANGED <<mainvars, env, dir, stat_fails>>

\* no candidate, or an exception swallowed by the try block
DetectFallback ==
    /\ dpc = "start"
    /\ ~EnvSet
    /\ ~SingleFile
    /\ jsonish = {} \/ stat_fails
    /\ LOG_FILE' = DefaultLogFile
    /\ dpc' = "done"
    /\ UNCHANGED <<mainvars, env, dir, stat_fails>>

---------------------------------------------------------------------------
(* main *)

NoEntry == [msg |-> "none"]
NoFrame == [inc |-> NoEntry, rid |-> "", t0 |-> 0, status |-> 0, done |-> NoEntry]
Running == pc \notin {"exited"}

\* mkdir of the parent directory, open(LOG_FILE, "a", buffering=1)
Open ==
    /\ pc = "start"
    /\ pc' = "banner"
    /\ fh' = [buf |-> <<>>, file |-> <<>>]
    /\ UNCHANGED <<clock, reqid_iter, login_status, banner_i, banner_t,
                   frame, synth, exit_code, detectvars>>

\* one turn of "for e in mk_server_listening_entries(): log_json(e, fh)";
\* the generator reads the clock once, when it is first advanced
Banner ==
    /\ pc = "banner"
    /\ LET t == IF banner_i = 0 THEN now_ms ELSE banner_t
           e == banner_entry(t, host_msgs[banner_i + 1])
       IN /\ banner_t' = t
          /\ synth' = Append(synth, e)
          /\ fh' = log_json(e, fh)
    /\ banner_i' = banner_i + 1
    /\ clock' = clock + WriteCost
    /\ pc' = IF banner_i + 1 = Len(host_msgs) THEN "pick" ELSE "banner"
    /\ UNCHANGED <<reqid_iter, login_status, frame, exit_code, detectvars>>

\* route selection, remote port, mk_incoming_request
Pick(D) ==
    /\ pc = "pick"
    /\ reqid_iter < D.cap
    /\ \E r \in D.routes, remote_port \in D.ports :
         LET rid == req_id(reqid_iter + 1)
             t0  == now_ms
             inc == incoming_entry(rid, t0, r[1], r[2], "localhost:3000",
                                   remote_port)
         IN /\ frame' = [inc |-> inc, rid |-> rid, t0 |-> t0,
                         status |-> r[3], done |-> NoEntry]
            /\ synth' = Append(synth, inc)
    /\ reqid_iter' = reqid_iter + 1
    /\ pc' = "log_inc"
    /\ UNCHANGED <<clock, login_status, fh, banner_i, banner_t, exit_code,
                   detectvars>>

\* log_json(inc, fh)
LogInc ==
    /\ pc = "log_inc"
    /\ fh' = log_json(frame.inc, fh)
    /\ clock' = clock + WriteCost
    /\ pc' = "sleep1"
    /\ UNCHANGED <<reqid_iter, login_status, banner_i, banner_t, frame, synth,
                   exit_code, detectvars>>

\* time.sleep(random.uniform(0.01, 0.05))
Sleep1(D) ==
    /\ pc = "sleep1"
    /\ \E d \in D.sleep1 : clock' = clock + d
    /\ pc' = "mk_done"
    /\ UNCHANGED <<reqid_iter, login_status, fh, banner_i, banner_t, frame,
                   synth, exit_code, detectvars>>

\* done = mk_request_completed(rid, status, t0)
MkDone(D) ==
    /\ pc = "mk_done"
    /\ \E rt \in D.rts \cap RtRange(frame.status) :
         LET done == mk_request_completed(frame.rid, frame.status, frame.t0, rt)
         IN /\ frame' = [frame EXCEPT !.done = done]
            /\ synth' = Append(synth, done)
    /\ pc' = "log_done"
    /\ UNCHANGED <<clock, reqid_iter, login_status, fh, banner_i, banner_t,
                   exit_code, detectvars>>

\* log_json(done, fh)
LogDone ==
    /\ pc = "log_done"
    /\ fh' = log_json(frame.done, fh)
    /\ clock' = clock + WriteCost
    /\ pc' = "sleep2"
    /\ UNCHANGED <<reqid_iter, login_status, banner_i, banner_t, frame, synth,
                   exit_code, detectvars>>

\* time.sleep(random.uniform(0.02, 0.15)), then back to the top of the loop
Sleep2(D) ==
    /\ pc = "sleep2"
    /\ \E d \in D.sleep2 : clock' = clock + d
    /\ pc' = "pick"
    /\ UNCHANGED <<reqid_iter, login_status, fh, banner_i, banner_t, frame,
                   synth, exit_code, detectvars>>

\* KeyboardInterrupt at any point: the with block closes the file, which
\* flushes what is pending, and the handler exits with status 0
Interrupt ==
    /\ Running
    /\ pc' = "exited"
    /\ fh' = fh_flush(fh)
    /\ exit_code' = 0
    /\ UNCHANGED <<clock, reqid_iter, login_status, banner_i, banner_t, frame,
                   synth, detectvars>>

\* the resolver has returned its fallback before main starts
DetectIdle ==
    /\ dpc = "done"
    /\ env = ""
    /\ dir = << >>
    /\ stat_fails = FALSE
    /\ LOG_FILE = DefaultLogFile

MainInit ==
    /\ pc = "start"
    /\ clock = 7
    /\ reqid_iter = 0
    /\ login_status \in LoginStatusDraws
    /\ fh = [buf |-> <<>>, file |-> <<>>]
    /\ banner_i = 0
    /\ banner_t = 0
    /\ frame = NoFrame
    /\ synth = <<>>
    /\ exit_code = -1

Init == MainInit /\ DetectIdle

Next ==
    \/ Open
    \/ Banner
    \/ Pick(Full)
    \/ LogInc
    \/ Sleep1(Full)
    \/ MkDone(Full)
    \/ LogDone
    \/ Sleep2(Full)
    \/ Interrupt

NextLong ==
    \/ Open
    \/ Banner
    \/ Pick(Single)
    \/ LogInc
    \/ Sleep1(Single)
    \/ MkDone(Single)
    \/ LogDone
    \/ Sleep2(Single)
    \/ Interrupt

\* the resolver before it runs, for every environment and directory content
DetectInit ==
    /\ MainInit
    /\ dpc = "start"
    /\ env \in EnvValues
    /\ dir \in UNION {[S -> Meta] : S \in SUBSET Names}
    /\ stat_fails \in BOOLEAN
    /\ LOG_FILE = ""

NextDetect ==
    \/ DetectEnv
    \/ DetectSingle
    \/ DetectJsonish
    \/ DetectFallback

\* every random draw enumerated, a few iterations
Spec == Init /\ [][Next]_vars
\* one value per draw, enough iterations to leave the alphabet
SpecLong == Init /\ [][NextLong]_vars
\* the target resolver alone
SpecDetect == DetectInit /\ [][NextDetect]_vars

---------------------------------------------------------------------------
(* Properties *)

\* the lines persisted by this run, in file order
File == fh.file

IsIncoming(r) == r.msg = "incoming request"
IsCompleted(r) == r.msg = "request completed"
IsRequest(r) == "reqId" \in DOMAIN r \/ "req" \in DOMAIN r \/ "res" \in DOMAIN r
IsBanner(r) == ~IsRequest(r)

\* positions of the incoming records that carry the identifier of record j
IncomingOf(F, j) ==
    {i \in DOMAIN F : IsIncoming(F[i]) /\ F[i].reqId = F[j].reqId}

\* the incoming records synthesized so far, in issuance order
Issued == SelectSeq(synth, IsIncoming)

\* C1: every completed record in the file carries the reqId of exactly one
\* incoming record of the file, and that record stands earlier in the file
C1_CompletedMatchesOnePriorIncoming ==
    \A j \in DOMAIN File :
        IsCompleted(File[j]) =>
            /\ Cardinality(IncomingOf(File, j)) = 1
            /\ \A i \in IncomingOf(File, j) : i < j

\* a run interrupted after the pair of the 37th request was written
C1_Witness ==
    /\ pc = "exited"
    /\ \E j \in DOMAIN File :
         IsCompleted(File[j]) /\ File[j].reqId = "req-37"

\* C3: no two incoming-request records carry the same reqId
C3_ReqIdsUnique ==
    \A a, b \in DOMAIN Issued :
        a # b => Issued[a].reqId # Issued[b].reqId

\* identifiers have been issued past the 36-character alphabet
C3_Witness == Len(Issued) > Len(alphabet) + 1

\* C7: the n-th identifier is "req-" and the character at position n-1 of the
\* alphabet for n <= 36, and "req-" and the decimal numeral of n from 37 on
C7_NthReqId ==
    \A n \in DOMAIN Issued :
        Issued[n].reqId =
            IF n <= 36 THEN "req-" \o alphabet[n] ELSE "req-" \o ToString(n)

\* the 10th, the 36th and the 37th identifier have been issued
C7_Witness ==
    /\ Len(Issued) >= 37
    /\ Issued[10].reqId = "req-9"
    /\ Issued[36].reqId = "req-z"
    /\ Issued[37].reqId = "req-37"

\* C4: whenever the file holds a request record, its first three records are
\* banner records with one common timestamp, and no banner record stands
\* anywhere else; the steady-state loop is entered with exactly three banners
C4_ThreeBannersFirst ==
    /\ \A i \in DOMAIN File :
          /\ IsRequest(File[i]) => i > 3
          /\ IsBanner(File[i]) => i <= 3 /\ File[i].time = File[1].time
          /\ i <= 3 => IsBanner(File[i])
    /\ pc \in {"pick", "log_inc", "sleep1", "mk_done", "log_done", "sleep2"}
          => Len(File) >= 3

\* banners, then a full request pair, written after the clock moved on
C4_Witness ==
    /\ Len(File) >= 5
    /\ IsBanner(File[3])
    /\ IsCompleted(File[5])
    /\ File[4].time > File[1].time

\* C6: in either sleep, and whenever the next record is about to be
\* synthesized, nothing is pending and the file holds every record synthesized
\* so far; the first sleep follows the incoming line, the second the completed
\* line that follows it
C6_FlushedBeforeAnythingElse ==
    /\ pc \in {"banner", "pick", "sleep1", "mk_done", "sleep2"} =>
          fh.buf = <<>> /\ File = synth
    /\ pc \in {"sleep1", "mk_done"} =>
          File # <<>> /\ File[Len(File)] = frame.inc
    /\ pc = "sleep2" =>
          /\ Len(File) >= 2
          /\ File[Len(File)] = frame.done
          /\ File[Len(File) - 1] = frame.inc

\* the second sleep of the second iteration
C6_Witness == pc = "sleep2" /\ Len(File) = 7 /\ fh.buf = <<>>

\* C8: the time of a completed record exceeds the time of its incoming record
\* by the elapsed time truncated to an integer, which lies in 0..40 for status
\* 200 and in 0..300 for every other status
C8_TruncatedElapsedInRange ==
    \A j \in DOMAIN File :
        IsCompleted(File[j]) => \A i \in IncomingOf(File, j) :
            LET diff == File[j].time - File[i].time
            IN /\ diff = File[j].responseTime \div Den
               /\ File[j].res.statusCode = 200 => diff \in 0 .. 40
               /\ File[j].res.statusCode # 200 => diff \in 0 .. 300

\* both upper ends are met: 40 ms on a 200, 300 ms on another status
C8_Witness ==
    /\ \E j \in DOMAIN File : IsCompleted(File[j]) /\ \E i \in IncomingOf(File, j) :
         /\ i < j
         /\ File[j].res.statusCode = 200
         /\ File[j].time - File[i].time = 40
    /\ \E j \in DOMAIN File : IsCompleted(File[j]) /\ \E i \in IncomingOf(File, j) :
         /\ i < j
         /\ File[j].res.statusCode # 200
         /\ File[j].time - File[i].time = 300

LoginCompleted(F) ==
    {j \in DOMAIN F :
        /\ IsCompleted(F[j])
        /\ \E i \in IncomingOf(F, j) : F[i].req.url = "/api/auth/login"}

\* C9: all completed records of /api/auth/login requests of one run carry the
\* same status code, one of 200 and 406
C9_LoginStatusFixed ==
    \A a, b \in LoginCompleted(File) :
        /\ File[a].res.statusCode = File[b].res.statusCode
        /\ File[a].res.statusCode \in {200, 406}

\* two login requests completed in one run, with status 406
C9_Witness ==
    /\ Cardinality(LoginCompleted(File)) >= 2
    /\ \A j \in LoginCompleted(File) : File[j].res.statusCode = 406

\* C10, as stated: the time fields of the records never decrease in file order
C10_TimesNonDecreasing ==
    \A a, b \in DOMAIN File : a < b => File[a].time <= File[b].time

\* no fault of the file system inside the resolver's try block
NoFsError == ~stat_fails

\* the files of the scan directory
FilesIn(d) == {p \in DOMAIN d : d[p].is_file}

\* C5, as stated: with no override, a scan directory holding exactly one file
\* makes detect_log_file return that file, whatever else the directory holds
C5_SingleFileReturned ==
    (dpc = "done" /\ ~EnvSet /\ NoFsError /\ Cardinality(FilesIn(dir)) = 1)
        => \A p \in FilesIn(dir) : LOG_FILE = PathStr(p)

====
